---- MODULE Spec2Model ----
(***************************************************************************)
(* Model of the validation and persistence rules of foodmood:              *)
(*   - edibles/models.py    Edible, its ingredients relation, Edible.clean  *)
(*   - wellbeing/models.py  WellbeingParameter.clean, WellbeingEntry.clean  *)
(*   - wellbeing/admin.py   the admin add forms (validated writes)          *)
(*   - recipes/models.py    Ingredient, Recipe, RecipeIngredient (unique    *)
(*                          indexes); meals/models.py Meal                  *)
(*   - on_delete=CASCADE on the user and parameter foreign keys             *)
(* A validation outcome is a record [error, field]: the error kind raised  *)
(* (or "none") and the field the ValidationError is attached to.           *)
(***************************************************************************)
EXTENDS Integers, Sequences, FiniteSets, TLC

\* ---------------------------------------------------------------- bounds
MaxEdibles == 2

MaxUsers == 2

MaxOptions == 2

MaxParams == 2

MaxEntries == 1

MaxMeals == 1

MaxRecipes == 1

MaxNameLen == 2

\* Entries in the ingredients_data list of a recipe form.
MaxDataLen == 2

\* Quick-create requests served at the same time.
MaxWorkers == 2

\* Characters in one posted value of the recipes field.
MaxPostLen == 3

\* Meal rows in the model of the meals index page: one more than a page holds.
MaxViewMeals == 6

\* ------------------------------------------------------------- variables
VARIABLES
    edibles,        \* ids of the stored Edible rows
    ingredients,    \* stored ingredients relation: edible id -> set of edible ids
    edOp,           \* the last edible operation performed
    edTarget,       \* the edible that operation acted on (0: none)
    edResult,       \* outcome of the last Edible.full_clean
    edBefore,       \* the last ingredient write: the edible and its stored set before it
    cleanParam,     \* a WellbeingParameter instance under validation
    cleanEntry,     \* a WellbeingEntry instance under validation
    cleanOp,        \* which clean() ran last on them
    cleanResult,    \* its outcome
    params,         \* stored WellbeingParameter rows
    entries,        \* stored WellbeingEntry rows
    storeOp,        \* the last write attempted on them
    storeResult,    \* "stored", "deleted", "IntegrityError" or "ValidationError"
    users,          \* ids of the stored auth users
    meals,          \* stored Meal rows
    nextId,         \* the next primary key of each table with deletions
    ingredientRows, \* stored recipes.Ingredient rows
    recipes,        \* ids of the stored Recipe rows
    recipeIngredients,  \* stored RecipeIngredient rows
    recipeOp,       \* the last write attempted on the recipe tables
    recipeResult,   \* "stored" or "IntegrityError"
    formData,       \* the data a MealForm is bound to
    now,            \* timezone.now(): the clock's date and time
    formOp,         \* whether MealForm.clean has run on formData
    formResult,     \* its outcome: the form's validity and cleaned_data["date_time"]
    viewOp,         \* the view that served the last request
    viewRequest,    \* that request: request.user and its POST data
    viewResponse,   \* the response it was given
    accounts,       \* username and password of the users registered
    session,        \* the user the client's session is authenticated as
    names,          \* name of each edible stored through quick create
    workers         \* the quick-create requests being served, step by step

edVars == <<edibles, ingredients, edOp, edTarget, edResult, edBefore>>

cleanVars == <<cleanParam, cleanEntry, cleanOp, cleanResult>>

storeVars == <<params, entries, storeOp, storeResult, users, meals, nextId>>

recipeVars == <<ingredientRows, recipes, recipeIngredients, recipeOp, recipeResult>>

formVars == <<formData, now, formOp, formResult>>

viewVars == <<viewOp, viewRequest, viewResponse>>

authVars == <<accounts, session>>

quickVars == <<names, workers>>

webVars == <<formVars, viewVars, authVars, quickVars>>

vars == <<edVars, cleanVars, storeVars, recipeVars, webVars>>

\* ------------------------------------------------------ validation outcomes
Ok == [error |-> "none", field |-> "none"]

Err(kind, fld) == [error |-> kind, field |-> fld]

\* A ValidationError raised with a plain message is a non-field error.
NON_FIELD_ERRORS == "__all__"

\* ---------------------------------------------------------------- Edible
EdibleIds == 1..MaxEdibles

NoWrite == [edible |-> 0, before |-> {}]

\* Mutant of Edible.clean: rejects any non-empty ingredient set.
EdibleClean_AnyIngredient(e, ingr) ==
    IF ingr # {}
    THEN Err("SelfReference", NON_FIELD_ERRORS)
    ELSE Ok

\* Mutant of Edible.clean: the error is attached to the ingredients field.
EdibleClean_FieldError(e, ingr) ==
    IF e \in ingr
    THEN Err("SelfReference", "ingredients")
    ELSE Ok

\* Mutant of Edible.clean: an ingredient that has the edible among its own
\* ingredients is rejected too.
EdibleClean_TwoHop(e, ingr) ==
    IF e \in ingr \/ (\E b \in ingr : e \in ingredients[b])
    THEN Err("SelfReference", NON_FIELD_ERRORS)
    ELSE Ok

\* Edible.clean: ingredients = self.ingredients.all(); if self in ingredients: raise
EdibleClean(e, ingr) ==
    IF e \in ingr
    THEN Err("SelfReference", NON_FIELD_ERRORS)
    ELSE Ok

EdibleInit ==
    /\ edibles = {}
    /\ ingredients = [e \in EdibleIds |-> {}]
    /\ edOp = "none"
    /\ edTarget = 0
    /\ edResult = Ok
    /\ edBefore = NoWrite

\* Edible.objects.create(name=...): a new row with the next id and no ingredients.
EdibleCreate ==
    /\ Cardinality(edibles) < MaxEdibles
    /\ LET id == Cardinality(edibles) + 1 IN
        /\ edibles' = edibles \cup {id}
        /\ edOp' = "create"
        /\ edTarget' = id
    /\ UNCHANGED <<ingredients, edResult, edBefore>>
    /\ UNCHANGED <<cleanVars, storeVars, recipeVars, webVars>>

\* e.ingredients.set(S): the related manager replaces the stored set; no validation runs.
IngredientsSet(e, S) ==
    /\ e \in edibles
    /\ S \subseteq edibles
    /\ ingredients' = [ingredients EXCEPT ![e] = S]
    /\ edOp' = "set"
    /\ edTarget' = e
    /\ edBefore' = [edible |-> e, before |-> ingredients[e]]
    /\ UNCHANGED <<edibles, edResult>>
    /\ UNCHANGED <<cleanVars, storeVars, recipeVars, webVars>>

\* e.ingredients.add(x)
IngredientsAdd(e, x) ==
    /\ e \in edibles
    /\ x \in edibles
    /\ ingredients' = [ingredients EXCEPT ![e] = @ \cup {x}]
    /\ edOp' = "add"
    /\ edTarget' = e
    /\ edBefore' = [edible |-> e, before |-> ingredients[e]]
    /\ UNCHANGED <<edibles, edResult>>
    /\ UNCHANGED <<cleanVars, storeVars, recipeVars, webVars>>

\* e.ingredients.remove(x)
IngredientsRemove(e, x) ==
    /\ e \in edibles
    /\ x \in edibles
    /\ ingredients' = [ingredients EXCEPT ![e] = @ \ {x}]
    /\ edOp' = "remove"
    /\ edTarget' = e
    /\ edBefore' = [edible |-> e, before |-> ingredients[e]]
    /\ UNCHANGED <<edibles, edResult>>
    /\ UNCHANGED <<cleanVars, storeVars, recipeVars, webVars>>

\* e.full_clean(): Edible.clean reads the stored relation and raises or returns.
EdibleFullClean(e) ==
    /\ e \in edibles
    /\ edResult' = EdibleClean(e, ingredients[e])
    /\ edOp' = "full_clean"
    /\ edTarget' = e
    /\ UNCHANGED <<edibles, ingredients, edBefore>>
    /\ UNCHANGED <<cleanVars, storeVars, recipeVars, webVars>>

\* The rows of the ingredients relation's join table: (from_edible, to_edible).
Through == {<<a, b>> \in edibles \X edibles : b \in ingredients[a]}

\* Mutant of used_in: the relation is symmetrical, as for a relation to "self".
used_in_Symmetrical(e) ==
    {r[1] : r \in {t \in Through : t[2] = e}} \cup ingredients[e]

\* e.used_in.all(): related_name="used_in" is the reverse query on the join
\* table, the edibles whose rows point to e.
used_in(e) == {r[1] : r \in {t \in Through : t[2] = e}}

EdibleNext ==
    \/ EdibleCreate
    \/ \E e \in EdibleIds, S \in SUBSET EdibleIds : IngredientsSet(e, S)
    \/ \E e \in EdibleIds, x \in EdibleIds : IngredientsAdd(e, x)
    \/ \E e \in EdibleIds, x \in EdibleIds : IngredientsRemove(e, x)
    \/ \E e \in EdibleIds : EdibleFullClean(e)

\* ------------------------------------------------------------- wellbeing
\* An optional value is <<>> (None) or <<v>>.
None == <<>>

Some(v) == <<v>>

Users == 1..MaxUsers

\* WellbeingParameter.ParameterType; the column is a CharField, so a row can
\* also hold a string that is neither choice.
CATEGORIC == "categoric"

NUMERIC == "numeric"

ParameterTypes == {CATEGORIC, NUMERIC, "other"}

Strings == {"", "Happy", "Sad"}

\* JSONField options (null=True): null, a list of strings, or another JSON
\* value (here a string, given by its characters).
JsonNull == [kind |-> "null", items |-> <<>>]

JsonList(items) == [kind |-> "list", items |-> items]

JsonString(chars) == [kind |-> "string", items |-> chars]

SeqsUpTo(S, n) == UNION {[1..k -> S] : k \in 0..n}

OptionValues ==
    {JsonNull} \cup {JsonList(l) : l \in SeqsUpTo(Strings, MaxOptions)}
               \cup {JsonString(<<>>), JsonString(<<"x">>)}

\* categoric_value: CharField(blank=True); an instance can carry None.
CategoricValues == {None} \cup {Some(s) : s \in Strings}

\* numeric_value: DecimalField(decimal_places=2, null=True), in hundredths.
NumericValues == {None, Some(0), Some(750)}

ParameterInstances == [user : Users, type : ParameterTypes, options : OptionValues]

\* Python truthiness of a JSON value / of a string attribute.
Truthy(json) == json.kind # "null" /\ Len(json.items) > 0

IsList(json) == json.kind = "list"

TruthyStr(v) == v # None /\ v[1] # ""

Elems(seq) == {seq[i] : i \in 1..Len(seq)}

\* Mutant of WellbeingParameter.clean: the isinstance(options, list) check is lost.
ParameterClean_NoListCheck(p) ==
    IF p.type = CATEGORIC
    THEN IF ~Truthy(p.options) THEN Err("MissingOptions", "options") ELSE Ok
    ELSE IF p.type = NUMERIC
    THEN IF Truthy(p.options) THEN Err("UnexpectedOptions", "options") ELSE Ok
    ELSE Ok

\* WellbeingParameter.clean
ParameterClean(p) ==
    IF p.type = CATEGORIC
    THEN IF ~Truthy(p.options) THEN Err("MissingOptions", "options")
         ELSE IF ~IsList(p.options) THEN Err("MissingOptions", "options")
         ELSE IF Len(p.options.items) = 0 THEN Err("MissingOptions", "options")
         ELSE Ok
    ELSE IF p.type = NUMERIC
    THEN IF Truthy(p.options) THEN Err("UnexpectedOptions", "options") ELSE Ok
    ELSE Ok

\* Mutant of clean_catecoric_type: the option membership check is lost.
clean_catecoric_type_NoOptionCheck(e, p) ==
    IF ~TruthyStr(e.categoric_value)
    THEN Err("MissingCategoricValue", "categoric_value")
    ELSE IF e.numeric_value # None
    THEN Err("UnexpectedNumericValue", "numeric_value")
    ELSE Ok

\* Mutant of clean_catecoric_type: the numeric_value is looked at first.
clean_catecoric_type_NumericFirst(e, p) ==
    IF e.numeric_value # None
    THEN Err("UnexpectedNumericValue", "numeric_value")
    ELSE IF ~TruthyStr(e.categoric_value)
    THEN Err("MissingCategoricValue", "categoric_value")
    ELSE IF p.options.kind # "null" /\ IsList(p.options)
            /\ e.categoric_value[1] \notin Elems(p.options.items)
    THEN Err("InvalidOption", "categoric_value")
    ELSE Ok

\* Mutant of clean_catecoric_type: an empty options list is not checked against.
clean_catecoric_type_NonEmptyListOnly(e, p) ==
    IF ~TruthyStr(e.categoric_value)
    THEN Err("MissingCategoricValue", "categoric_value")
    ELSE IF e.numeric_value # None
    THEN Err("UnexpectedNumericValue", "numeric_value")
    ELSE IF p.options.kind # "null" /\ IsList(p.options)
            /\ Len(p.options.items) > 0
            /\ e.categoric_value[1] \notin Elems(p.options.items)
    THEN Err("InvalidOption", "categoric_value")
    ELSE Ok

\* WellbeingEntry.clean_catecoric_type
clean_catecoric_type(e, p) ==
    IF ~TruthyStr(e.categoric_value)
    THEN Err("MissingCategoricValue", "categoric_value")
    ELSE IF e.numeric_value # None
    THEN Err("UnexpectedNumericValue", "numeric_value")
    ELSE IF p.options.kind # "null" /\ IsList(p.options)
            /\ e.categoric_value[1] \notin Elems(p.options.items)
    THEN Err("InvalidOption", "categoric_value")
    ELSE Ok

\* Mutant of clean_numeric_type: a categoric_value beside the number is let through.
clean_numeric_type_NoCategoricCheck(e) ==
    IF e.numeric_value = None
    THEN Err("MissingNumericValue", "numeric_value")
    ELSE Ok

\* Mutant of clean_numeric_type: the number is tested for truth, so 0 is unset.
clean_numeric_type_ZeroUnset(e) ==
    IF e.numeric_value = None \/ e.numeric_value[1] = 0
    THEN Err("MissingNumericValue", "numeric_value")
    ELSE IF TruthyStr(e.categoric_value)
    THEN Err("UnexpectedCategoricValue", "categoric_value")
    ELSE Ok

\* WellbeingEntry.clean_numeric_type
clean_numeric_type(e) ==
    IF e.numeric_value = None
    THEN Err("MissingNumericValue", "numeric_value")
    ELSE IF TruthyStr(e.categoric_value)
    THEN Err("UnexpectedCategoricValue", "categoric_value")
    ELSE Ok

\* Reading self.parameter of an instance whose parameter is not set: the
\* foreign key is not nullable, so the descriptor raises
\* RelatedObjectDoesNotExist, which is no ValidationError.
Unhandled == Err("RelatedObjectDoesNotExist", "unhandled")

\* Mutant of WellbeingEntry.clean: the owner is compared after the value checks.
EntryClean_OwnerCheckedLast(e, par) ==
    IF par = None THEN Unhandled
    ELSE LET p == par[1]
             value == IF p.type = CATEGORIC THEN clean_catecoric_type(e, p)
                      ELSE IF p.type = NUMERIC THEN clean_numeric_type(e)
                      ELSE Ok
         IN  IF value # Ok THEN value
             ELSE IF p.user # e.user THEN Err("OwnershipMismatch", "parameter")
             ELSE Ok

\* WellbeingEntry.clean; par is the referenced parameter, None when not set.
EntryClean(e, par) ==
    IF par = None THEN Unhandled
    ELSE LET p == par[1] IN
         IF p.user # e.user THEN Err("OwnershipMismatch", "parameter")
         ELSE IF p.type = CATEGORIC THEN clean_catecoric_type(e, p)
         ELSE IF p.type = NUMERIC THEN clean_numeric_type(e)
         ELSE Ok

CleanInit ==
    /\ cleanParam \in ParameterInstances
    /\ cleanEntry \in [user : Users, parameter : {None, Some(cleanParam)},
                       categoric_value : CategoricValues,
                       numeric_value : NumericValues]
    /\ cleanOp = "none"
    /\ cleanResult = Ok

\* param.full_clean() reaching WellbeingParameter.clean
ParameterFullClean ==
    /\ cleanResult' = ParameterClean(cleanParam)
    /\ cleanOp' = "parameter"
    /\ UNCHANGED <<cleanParam, cleanEntry>>
    /\ UNCHANGED <<edVars, storeVars, recipeVars, webVars>>

\* Mutant of entry.full_clean(): a missing categoric_value is filled in with "".
EntryFullClean_Normalising ==
    /\ cleanResult' = EntryClean(cleanEntry, cleanEntry.parameter)
    /\ cleanOp' = "entry"
    /\ cleanEntry' = IF cleanEntry.categoric_value = None
                      THEN [cleanEntry EXCEPT !.categoric_value = Some("")]
                      ELSE cleanEntry
    /\ UNCHANGED cleanParam
    /\ UNCHANGED <<edVars, storeVars, recipeVars, webVars>>

\* entry.full_clean() reaching WellbeingEntry.clean
EntryFullClean ==
    /\ cleanResult' = EntryClean(cleanEntry, cleanEntry.parameter)
    /\ cleanOp' = "entry"
    /\ UNCHANGED <<cleanParam, cleanEntry>>
    /\ UNCHANGED <<edVars, storeVars, recipeVars, webVars>>

\* entry.clean_numeric_type(): the numeric checks on their own, as clean()
\* calls them for a Numeric parameter.
NumericTypeClean ==
    /\ cleanResult' = clean_numeric_type(cleanEntry)
    /\ cleanOp' = "numeric_type"
    /\ UNCHANGED <<cleanParam, cleanEntry>>
    /\ UNCHANGED <<edVars, storeVars, recipeVars, webVars>>

CleanIdle ==
    /\ cleanParam = [user |-> 1, type |-> NUMERIC, options |-> JsonNull]
    /\ cleanEntry = [user |-> 1, parameter |-> None, categoric_value |-> None,
                     numeric_value |-> None]
    /\ cleanOp = "none"
    /\ cleanResult = Ok

\* ------------------------------------------------------ stored wellbeing rows
Names == {"Mood", "Energy Level"}

StoreTypes == {CATEGORIC, NUMERIC}

StoreOptions == {JsonNull, JsonList(<<>>), JsonList(<<"Happy">>)}

StoreCategoric == {None, Some(""), Some("Happy"), Some("Sad")}

StoreNumeric == {None, Some(750)}

ParamIds == {p.id : p \in params}

ParamById(id) == CHOOSE p \in params : p.id = id

EntryIds == {e.id : e \in entries}

\* Mutant of the unique index of WellbeingParameter: the index is missing.
UniqueTogether_Off(self, u, nm) == TRUE

\* Meta.unique_together = ["user", "name"], seen from the row with id `self`
\* (0 for a row not stored yet).
UniqueTogether(self, u, nm) ==
    \A p \in params : p.id # self => ~(p.user = u /\ p.name = nm)

StoreInit ==
    /\ params = {}
    /\ entries = {}
    /\ storeOp = "none"
    /\ storeResult = "none"
    /\ users = Users
    /\ meals = {}
    /\ nextId = [param |-> 1, entry |-> 1, meal |-> 1]

\* WellbeingParameter.objects.create(...): inserts the row as given; clean() is
\* not called; the unique index rejects a duplicate (user, name) and the
\* foreign key a user that is not stored.
ParameterCreate(u, nm, t, o) ==
    /\ storeOp' = "ParameterCreate"
    /\ IF u \in users /\ UniqueTogether(0, u, nm)
       THEN /\ nextId.param <= MaxParams
            /\ params' = params \cup {[id |-> nextId.param, user |-> u,
                                       name |-> nm, type |-> t, options |-> o]}
            /\ nextId' = [nextId EXCEPT !.param = @ + 1]
            /\ storeResult' = "stored"
       ELSE /\ params' = params
            /\ nextId' = nextId
            /\ storeResult' = "IntegrityError"
    /\ UNCHANGED <<entries, users, meals>>
    /\ UNCHANGED <<edVars, cleanVars, recipeVars, webVars>>

\* param.type = t; param.options = o; param.save(): the row is updated as
\* given; clean() is not called.
ParameterSave(id, t, o) ==
    /\ id \in ParamIds
    /\ storeOp' = "ParameterSave"
    /\ params' = (params \ {ParamById(id)})
                    \cup {[ParamById(id) EXCEPT !.type = t, !.options = o]}
    /\ storeResult' = "stored"
    /\ UNCHANGED <<entries, users, meals, nextId>>
    /\ UNCHANGED <<edVars, cleanVars, recipeVars, webVars>>

\* The admin form of WellbeingParameter: the user must be a stored one, the
\* type one of the choices, instance.full_clean() runs clean(), and
\* validate_unique() checks (user, name).
ParameterFormValid(self, u, nm, t, o) ==
    /\ u \in users
    /\ t \in {CATEGORIC, NUMERIC}
    /\ ParameterClean([user |-> u, type |-> t, options |-> o]) = Ok
    /\ UniqueTogether(self, u, nm)

\* WellbeingParameterAdmin add view: the row is saved only when the form is valid.
AdminParameterAdd(u, nm, t, o) ==
    /\ storeOp' = "AdminParameterAdd"
    /\ IF ParameterFormValid(0, u, nm, t, o)
       THEN /\ nextId.param <= MaxParams
            /\ params' = params \cup {[id |-> nextId.param, user |-> u,
                                       name |-> nm, type |-> t, options |-> o]}
            /\ nextId' = [nextId EXCEPT !.param = @ + 1]
            /\ storeResult' = "stored"
       ELSE /\ params' = params
            /\ nextId' = nextId
            /\ storeResult' = "ValidationError"
    /\ UNCHANGED <<entries, users, meals>>
    /\ UNCHANGED <<edVars, cleanVars, recipeVars, webVars>>

\* WellbeingParameterAdmin change view.
AdminParameterChange(id, t, o) ==
    /\ id \in ParamIds
    /\ storeOp' = "AdminParameterChange"
    /\ LET old == ParamById(id) IN
       IF ParameterFormValid(id, old.user, old.name, t, o)
       THEN /\ params' = (params \ {old}) \cup {[old EXCEPT !.type = t, !.options = o]}
            /\ storeResult' = "stored"
       ELSE /\ params' = params
            /\ storeResult' = "ValidationError"
    /\ UNCHANGED <<entries, users, meals, nextId>>
    /\ UNCHANGED <<edVars, cleanVars, recipeVars, webVars>>

\* WellbeingEntry.objects.create(...): inserts the row as given; clean() is not
\* called. categoric_value is a NOT NULL column: None is rejected by the
\* database, an omitted value is stored as "". The foreign keys reject a user
\* or a parameter that is not stored.
EntryInsert(op, u, pid, c, n) ==
    /\ storeOp' = op
    /\ IF c # None /\ u \in users /\ pid \in ParamIds
       THEN /\ nextId.entry <= MaxEntries
            /\ entries' = entries \cup {[id |-> nextId.entry, user |-> u,
                                         parameter |-> pid, categoric_value |-> c,
                                         numeric_value |-> n]}
            /\ nextId' = [nextId EXCEPT !.entry = @ + 1]
            /\ storeResult' = "stored"
       ELSE /\ entries' = entries
            /\ nextId' = nextId
            /\ storeResult' = "IntegrityError"
    /\ UNCHANGED <<params, users, meals>>
    /\ UNCHANGED <<edVars, cleanVars, recipeVars, webVars>>

EntryCreate(u, pid, c, n) == EntryInsert("EntryCreate", u, pid, c, n)

\* The value a field takes when objects.create is not given it:
\* CharField(blank=True) without null=True defaults to the empty string,
\* DecimalField(null=True) to None.
CategoricDefault == Some("")

NumericDefault == None

\* WellbeingEntry.objects.create(user=u, parameter=p, numeric_value=n)
EntryCreateNumericOnly(u, pid, n) ==
    EntryInsert("EntryCreateNumericOnly", u, pid, CategoricDefault, n)

\* WellbeingEntry.objects.create(user=u, parameter=p, categoric_value=c)
EntryCreateCategoricOnly(u, pid, c) ==
    EntryInsert("EntryCreateCategoricOnly", u, pid, c, NumericDefault)

EntryById(id) == CHOOSE e \in entries : e.id = id

\* entry.categoric_value = c; entry.numeric_value = n; entry.save(): the row is
\* updated as given; clean() is not called.
EntrySave(id, c, n) ==
    /\ id \in EntryIds
    /\ storeOp' = "EntrySave"
    /\ IF c # None
       THEN /\ entries' = (entries \ {EntryById(id)})
                \cup {[EntryById(id) EXCEPT !.categoric_value = c, !.numeric_value = n]}
            /\ storeResult' = "stored"
       ELSE /\ entries' = entries
            /\ storeResult' = "IntegrityError"
    /\ UNCHANGED <<params, users, meals, nextId>>
    /\ UNCHANGED <<edVars, cleanVars, recipeVars, webVars>>

\* WellbeingEntryAdmin add view: the user and the parameter are chosen among
\* the stored ones; the form's instance.full_clean() runs WellbeingEntry.clean
\* against the stored parameter; the row is saved only when it raises nothing.
\* The form's CharField yields "" for no input.
AdminEntryAdd(u, pid, c, n) ==
    /\ u \in users
    /\ pid \in ParamIds
    /\ c # None
    /\ storeOp' = "AdminEntryAdd"
    /\ LET row == [id |-> nextId.entry, user |-> u, parameter |-> pid,
                   categoric_value |-> c, numeric_value |-> n] IN
       IF EntryClean(row, Some(ParamById(pid))) = Ok
       THEN /\ nextId.entry <= MaxEntries
            /\ entries' = entries \cup {row}
            /\ nextId' = [nextId EXCEPT !.entry = @ + 1]
            /\ storeResult' = "stored"
       ELSE /\ entries' = entries
            /\ nextId' = nextId
            /\ storeResult' = "ValidationError"
    /\ UNCHANGED <<params, users, meals>>
    /\ UNCHANGED <<edVars, cleanVars, recipeVars, webVars>>

\* WellbeingEntryAdmin change view.
AdminEntryChange(id, c, n) ==
    /\ id \in EntryIds
    /\ c # None
    /\ storeOp' = "AdminEntryChange"
    /\ LET old == EntryById(id)
           row == [old EXCEPT !.categoric_value = c, !.numeric_value = n] IN
       IF EntryClean(row, Some(ParamById(old.parameter))) = Ok
       THEN /\ entries' = (entries \ {old}) \cup {row}
            /\ storeResult' = "stored"
       ELSE /\ entries' = entries
            /\ storeResult' = "ValidationError"
    /\ UNCHANGED <<params, users, meals, nextId>>
    /\ UNCHANGED <<edVars, cleanVars, recipeVars, webVars>>

\* An aware datetime in UTC, as timezone.now() gives.
Utc(d, t) == [date |-> d, time |-> t, tz |-> "UTC"]

\* The INSERT of a Meal row and of its recipes links; at most cap rows are
\* ever inserted.
MealInsert(cap, u, dt, rs) ==
    /\ storeOp' = "MealCreate"
    /\ IF u \in users
       THEN /\ nextId.meal <= cap
            /\ meals' = meals \cup
                  {[id |-> nextId.meal, user |-> u, date_time |-> dt, recipes |-> rs]}
            /\ nextId' = [nextId EXCEPT !.meal = @ + 1]
            /\ storeResult' = "stored"
       ELSE /\ meals' = meals
            /\ nextId' = nextId
            /\ storeResult' = "IntegrityError"
    /\ UNCHANGED <<params, entries, users>>
    /\ UNCHANGED <<edVars, cleanVars, recipeVars>>

\* Meal.objects.create(name=..., date_time=..., user=u)
MealCreate(u) ==
    /\ MealInsert(MaxMeals, u, Utc(1, 0), {})
    /\ UNCHANGED webVars

\* Mutant of user.delete(): only the user row goes.
UserDelete_NoCascade(u) ==
    /\ u \in users
    /\ storeOp' = "UserDelete"
    /\ storeResult' = "deleted"
    /\ users' = users \ {u}
    /\ UNCHANGED <<params, entries, meals, nextId>>
    /\ UNCHANGED <<edVars, cleanVars, recipeVars, webVars>>

\* user.delete(): on_delete=CASCADE on WellbeingParameter.user,
\* WellbeingEntry.user and Meal.user removes the user's rows, and CASCADE on
\* WellbeingEntry.parameter the entries of the removed parameters.
UserDelete(u) ==
    /\ u \in users
    /\ storeOp' = "UserDelete"
    /\ storeResult' = "deleted"
    /\ users' = users \ {u}
    /\ params' = {p \in params : p.user # u}
    /\ entries' = {e \in entries : e.user # u /\ ParamById(e.parameter).user # u}
    /\ meals' = {m \in meals : m.user # u}
    /\ UNCHANGED nextId
    /\ UNCHANGED <<edVars, cleanVars, recipeVars, webVars>>

\* param.delete(): CASCADE on WellbeingEntry.parameter removes its entries.
ParameterDelete(id) ==
    /\ id \in ParamIds
    /\ storeOp' = "ParameterDelete"
    /\ storeResult' = "deleted"
    /\ params' = params \ {ParamById(id)}
    /\ entries' = {e \in entries : e.parameter # id}
    /\ UNCHANGED <<users, meals, nextId>>
    /\ UNCHANGED <<edVars, cleanVars, recipeVars, webVars>>

\* entry.delete()
EntryDelete(id) ==
    /\ id \in EntryIds
    /\ storeOp' = "EntryDelete"
    /\ storeResult' = "deleted"
    /\ entries' = entries \ {EntryById(id)}
    /\ UNCHANGED <<params, users, meals, nextId>>
    /\ UNCHANGED <<edVars, cleanVars, recipeVars, webVars>>

StoreNext ==
    \/ \E u \in Users, nm \in Names, t \in StoreTypes, o \in StoreOptions :
          ParameterCreate(u, nm, t, o)
    \/ \E id \in 1..MaxParams, t \in StoreTypes, o \in StoreOptions :
          ParameterSave(id, t, o)
    \/ \E u \in Users, nm \in Names, t \in StoreTypes, o \in StoreOptions :
          AdminParameterAdd(u, nm, t, o)
    \/ \E id \in 1..MaxParams, t \in StoreTypes, o \in StoreOptions :
          AdminParameterChange(id, t, o)
    \/ \E u \in Users, pid \in 1..MaxParams, c \in StoreCategoric, n \in StoreNumeric :
          EntryCreate(u, pid, c, n)
    \/ \E id \in 1..MaxEntries, c \in StoreCategoric, n \in StoreNumeric :
          EntrySave(id, c, n)
    \/ \E u \in Users, pid \in 1..MaxParams, c \in StoreCategoric, n \in StoreNumeric :
          AdminEntryAdd(u, pid, c, n)
    \/ \E id \in 1..MaxEntries, c \in StoreCategoric, n \in StoreNumeric :
          AdminEntryChange(id, c, n)

\* The options given to the creations of ParamsNext: none, or one option.
CreateOptions == {JsonNull, JsonList(<<"Happy">>)}

\* The parameter table under creations, unvalidated and through the admin form.
ParamsNext ==
    \/ \E u \in Users, nm \in Names, t \in StoreTypes, o \in CreateOptions :
          ParameterCreate(u, nm, t, o)
    \/ \E u \in Users, nm \in Names, t \in StoreTypes, o \in CreateOptions :
          AdminParameterAdd(u, nm, t, o)

\* Entries created with one of the two values.
DefaultsNext ==
    \/ \E u \in Users, nm \in Names, t \in StoreTypes, o \in CreateOptions :
          ParameterCreate(u, nm, t, o)
    \/ \E u \in Users, pid \in 1..MaxParams, n \in {Some(0), Some(750)} :
          EntryCreateNumericOnly(u, pid, n)
    \/ \E u \in Users, pid \in 1..MaxParams, c \in {Some("Happy"), Some("Sad")} :
          EntryCreateCategoricOnly(u, pid, c)
    \/ \E id \in 1..MaxEntries : EntryDelete(id)

\* Creations and deletions of users' rows; the values of a row play no part
\* in a deletion, so one Numeric parameter shape and one entry shape are used.
CascadeNext ==
    \/ \E u \in Users, nm \in Names : ParameterCreate(u, nm, NUMERIC, JsonNull)
    \/ \E u \in Users, pid \in 1..MaxParams : EntryCreate(u, pid, Some(""), Some(750))
    \/ \E u \in Users : MealCreate(u)
    \/ \E u \in Users : UserDelete(u)
    \/ \E id \in 1..MaxParams : ParameterDelete(id)
    \/ \E id \in 1..MaxEntries : EntryDelete(id)

\* ------------------------------------------------------------------ recipes
IngredientNames == {"Tomato", "Salt"}

\* weight_g: DecimalField(decimal_places=2, null=True), in hundredths.
Weights == {None, Some(10000), Some(20000)}

IngredientRowIds == {i.id : i \in ingredientRows}

RecipeInit ==
    /\ ingredientRows = {}
    /\ recipes = {}
    /\ recipeIngredients = {}
    /\ recipeOp = "none"
    /\ recipeResult = "none"

\* Ingredient.name: unique=True
IngredientNameUnique(nm) == \A i \in ingredientRows : i.name # nm

\* Ingredient.objects.create(name=nm)
IngredientCreate(nm) ==
    /\ recipeOp' = "IngredientCreate"
    /\ IF IngredientNameUnique(nm)
       THEN /\ ingredientRows' = ingredientRows
                   \cup {[id |-> Cardinality(ingredientRows) + 1, name |-> nm]}
            /\ recipeResult' = "stored"
       ELSE /\ ingredientRows' = ingredientRows
            /\ recipeResult' = "IntegrityError"
    /\ UNCHANGED <<recipes, recipeIngredients>>
    /\ UNCHANGED <<edVars, cleanVars, storeVars, webVars>>

\* Recipe.objects.create(name=...): recipe names are not unique.
RecipeCreate ==
    /\ Cardinality(recipes) < MaxRecipes
    /\ recipeOp' = "RecipeCreate"
    /\ recipes' = recipes \cup {Cardinality(recipes) + 1}
    /\ recipeResult' = "stored"
    /\ UNCHANGED <<ingredientRows, recipeIngredients>>
    /\ UNCHANGED <<edVars, cleanVars, storeVars, webVars>>

\* Mutant of the unique index of RecipeIngredient: the weight is part of the key.
RecipeIngredientUnique_WithWeight(row) ==
    \A x \in recipeIngredients :
        ~(x.recipe = row.recipe /\ x.ingredient = row.ingredient
          /\ x.weight_g = row.weight_g)

\* RecipeIngredient.Meta.unique_together = ["recipe", "ingredient"], seen from
\* the row about to be inserted.
RecipeIngredientUnique(row) ==
    \A x \in recipeIngredients :
        ~(x.recipe = row.recipe /\ x.ingredient = row.ingredient)

\* RecipeIngredient.objects.create(recipe=r, ingredient=i, weight_g=w)
RecipeIngredientCreate(r, i, w) ==
    /\ r \in recipes
    /\ i \in IngredientRowIds
    /\ recipeOp' = "RecipeIngredientCreate"
    /\ LET row == [id |-> Cardinality(recipeIngredients) + 1, recipe |-> r,
                   ingredient |-> i, weight_g |-> w] IN
       IF RecipeIngredientUnique(row)
       THEN /\ recipeIngredients' = recipeIngredients \cup {row}
            /\ recipeResult' = "stored"
       ELSE /\ recipeIngredients' = recipeIngredients
            /\ recipeResult' = "IntegrityError"
    /\ UNCHANGED <<ingredientRows, recipes>>
    /\ UNCHANGED <<edVars, cleanVars, storeVars, webVars>>

RecipeNext ==
    \/ \E nm \in IngredientNames : IngredientCreate(nm)
    \/ RecipeCreate
    \/ \E r \in 1..MaxRecipes, i \in 1..Cardinality(IngredientNames), w \in Weights :
          RecipeIngredientCreate(r, i, w)

\* ---------------------------------------------------------------- MealForm
\* A string is the sequence of its characters.
Chars == {" ", "a", "A"}

Texts == SeqsUpTo(Chars, MaxNameLen)

\* str.strip(): leading and trailing whitespace removed.
RECURSIVE LStrip(_)
LStrip(s) == IF s # <<>> /\ Head(s) = " " THEN LStrip(Tail(s)) ELSE s

RECURSIVE RStrip(_)
RStrip(s) ==
    IF s # <<>> /\ s[Len(s)] = " " THEN RStrip(SubSeq(s, 1, Len(s) - 1)) ELSE s

Strip(s) == RStrip(LStrip(s))

Dates == {1, 2}

\* Times of day in minutes; 0 is midnight.
Times == {0, 720}

\* datetime.combine(d, t), not yet aware of a time zone
Combine(d, t) == [date |-> d, time |-> t, tz |-> "naive"]

\* timezone.make_aware(naive): the same date and time in the default time zone
MakeAware(dt) == [dt EXCEPT !.tz = "default"]

\* timezone.now() is an aware datetime in UTC.
Clock == [date : Dates, time : Times, tz : {"UTC"}]

\* Mutant of MealForm.clean's date_time: a missing time defaults to midnight.
MealDateTime_MidnightDefault(meal_date, meal_time, clock) ==
    IF meal_date # None /\ meal_time # None
    THEN MakeAware(Combine(meal_date[1], meal_time[1]))
    ELSE IF meal_date # None
    THEN MakeAware(Combine(meal_date[1], 0))
    ELSE IF meal_time # None
    THEN MakeAware(Combine(clock.date, meal_time[1]))
    ELSE clock

\* MealForm.clean: cleaned_data["date_time"] from the cleaned meal_date and
\* meal_time (None when not supplied; a date or a time object is always true).
MealDateTime(meal_date, meal_time, clock) ==
    IF meal_date # None /\ meal_time # None
    THEN MakeAware(Combine(meal_date[1], meal_time[1]))
    ELSE IF meal_date # None /\ meal_time = None
    THEN MakeAware(Combine(meal_date[1], clock.time))
    ELSE IF meal_time # None /\ meal_date = None
    THEN MakeAware(Combine(clock.date, meal_time[1]))
    ELSE clock

\* The name field of the form: a required CharField, stripped before the
\* required check.
NameFieldValid(name) == name # None /\ Strip(name[1]) # <<>>

FormInputs ==
    [name : {None} \cup {Some(t) : t \in Texts},
     meal_date : {None} \cup {Some(d) : d \in Dates},
     meal_time : {None} \cup {Some(t) : t \in Times}]

NoFormResult == [valid |-> FALSE, date_time |-> None]

FormIdle ==
    /\ formData = [name |-> None, meal_date |-> None, meal_time |-> None]
    /\ now = [date |-> 1, time |-> 0, tz |-> "UTC"]
    /\ formOp = "none"
    /\ formResult = NoFormResult

FormInit ==
    /\ formData \in FormInputs
    /\ now \in Clock
    /\ formOp = "none"
    /\ formResult = NoFormResult

\* MealForm(data=formData).is_valid(): the fields are cleaned, then
\* MealForm.clean runs whether or not a field failed.
MealFormClean ==
    /\ formOp' = "clean"
    /\ formResult' =
          [valid |-> NameFieldValid(formData.name),
           date_time |-> Some(MealDateTime(formData.meal_date, formData.meal_time, now))]
    /\ UNCHANGED <<formData, now>>
    /\ UNCHANGED <<edVars, cleanVars, storeVars, recipeVars, viewVars, authVars, quickVars>>

\* request.user of a request without an authenticated session: AnonymousUser.
Anonymous == 0

\* No user has registered and the client holds no session.
AuthIdle ==
    /\ accounts = {}
    /\ session = Anonymous

\* No edible was stored through quick create and no request is being served.
QuickIdle ==
    /\ names = <<>>
    /\ workers = <<>>

\* --------------------------------------------------------- meals index
\* The slice of the index view's queryset, [:5].
RecentLimit == 5

\* The point in time of an aware datetime, in minutes, within one time zone.
Instant(dt) == dt.date * 1440 + dt.time

\* Rows with equal date_time come in an order the database chooses; the model
\* lets it be either order of the primary keys.
TieBreaks == {"asc", "desc"}

\* Row a comes before row b under ORDER BY date_time DESC.
Before(a, b, tb) ==
    \/ Instant(a.date_time) > Instant(b.date_time)
    \/ /\ Instant(a.date_time) = Instant(b.date_time)
       /\ IF tb = "asc" THEN a.id < b.id ELSE a.id > b.id

RECURSIVE OrderByDateTimeDesc(_, _)
\* Meta.ordering = ["-date_time"] applied to a set of rows
OrderByDateTimeDesc(rows, tb) ==
    IF rows = {}
    THEN <<>>
    ELSE LET first == CHOOSE m \in rows : \A o \in rows \ {m} : Before(m, o, tb)
         IN  <<first>> \o OrderByDateTimeDesc(rows \ {first}, tb)

\* queryset[:n]
Slice(rows, n) == SubSeq(rows, 1, IF Len(rows) < n THEN Len(rows) ELSE n)

\* Mutant of the index view's queryset: no filter on the owner.
recent_meals_AllUsers(user, tb, stored) ==
    Slice(OrderByDateTimeDesc(stored, tb), RecentLimit)

\* Meal.objects.filter(user=request.user)[:5]
recent_meals(user, tb, stored) ==
    Slice(OrderByDateTimeDesc({m \in stored : m.user = user}, tb), RecentLimit)

NoRequest == [user |-> Anonymous]

NoResponse == [status |-> 0]

ViewIdle ==
    /\ viewOp = "none"
    /\ viewRequest = NoRequest
    /\ viewResponse = NoResponse

\* The page of the last request is gone once the tables are written again.
ViewReset ==
    /\ viewOp' = "none"
    /\ viewRequest' = NoRequest
    /\ viewResponse' = NoResponse

\* GET meals:index by requester; the context has recent_meals only for an
\* authenticated user.
MealsIndex(requester, tb) ==
    /\ requester \in users \cup {Anonymous}
    /\ viewOp' = "index"
    /\ viewRequest' = [user |-> requester]
    /\ viewResponse' =
          IF requester # Anonymous
          THEN [status |-> 200, in_context |-> TRUE,
                recent_meals |-> recent_meals(requester, tb, meals)]
          ELSE [status |-> 200, in_context |-> FALSE, recent_meals |-> <<>>]
    /\ UNCHANGED <<edVars, cleanVars, storeVars, recipeVars, formVars, authVars, quickVars>>

\* Meal.objects.create(name=..., date_time=dt, user=u) between two requests
MealCreateAt(u, dt) ==
    /\ MealInsert(MaxViewMeals, u, dt, {})
    /\ ViewReset
    /\ UNCHANGED <<formVars, authVars, quickVars>>

\* A stored meal gets another date_time (the admin's change form).
MealChange(id, dt) ==
    /\ \E old \in meals :
          /\ old.id = id
          /\ old.date_time # dt
          /\ meals' = (meals \ {old}) \cup {[old EXCEPT !.date_time = dt]}
    /\ storeOp' = "MealSave"
    /\ storeResult' = "stored"
    /\ ViewReset
    /\ UNCHANGED <<params, entries, users, nextId>>
    /\ UNCHANGED <<edVars, cleanVars, recipeVars, formVars, authVars, quickVars>>

\* meal.delete() (the admin's delete action)
MealDelete(id) ==
    /\ \E old \in meals :
          /\ old.id = id
          /\ meals' = meals \ {old}
    /\ storeOp' = "MealDelete"
    /\ storeResult' = "deleted"
    /\ ViewReset
    /\ UNCHANGED <<params, entries, users, nextId>>
    /\ UNCHANGED <<edVars, cleanVars, recipeVars, formVars, authVars, quickVars>>

MealInstants == {Utc(d, 0) : d \in Dates}

\* The owners of the meals: the user whose page is requested and one other.
IndexUsers == {1, 2}

\* Who requests the page: that user, or nobody logged in.
IndexRequesters == {1, Anonymous}

IndexNext ==
    \/ \E u \in IndexUsers, dt \in MealInstants : MealCreateAt(u, dt)
    \/ \E id \in 1..MaxMeals, dt \in MealInstants : MealChange(id, dt)
    \/ \E id \in 1..MaxMeals : MealDelete(id)
    \/ \E requester \in IndexRequesters, tb \in TieBreaks :
          MealsIndex(requester, tb)

\* ---------------------------------------------------------- create meal
\* The characters of a posted recipes value: digits, the separator, a blank.
RecipeChars == {"1", "2", ",", " "}

Digits == {"1", "2"}

RECURSIVE SplitComma(_)
\* str.split(","): the pieces between the commas, empty pieces included
SplitComma(s) ==
    IF \A i \in 1..Len(s) : s[i] # ","
    THEN <<s>>
    ELSE LET i == CHOOSE k \in 1..Len(s) : s[k] = "," /\ \A j \in 1..(k - 1) : s[j] # ","
         IN  <<SubSeq(s, 1, i - 1)>> \o SplitComma(SubSeq(s, i + 1, Len(s)))

NotEmpty(s) == s # <<>>

\* [id.strip() for id in value.split(",") if id.strip()]
recipe_ids(value) ==
    LET pieces == SplitComma(value)
    IN  SelectSeq([i \in 1..Len(pieces) |-> Strip(pieces[i])], NotEmpty)

\* int(token) succeeds: the token is a run of digits.
IsInt(token) == token # <<>> /\ \A i \in 1..Len(token) : token[i] \in Digits

RECURSIVE ToInt(_)
\* int(token) of a run of digits
ToInt(token) ==
    IF token = <<>>
    THEN 0
    ELSE 10 * ToInt(SubSeq(token, 1, Len(token) - 1))
         + (IF token[Len(token)] = "1" THEN 1 ELSE 2)

\* post_data["recipes"]: the LAST value posted under the key (QueryDict).
LastValue(values) == values[Len(values)]

\* The list the view hands to the form as the recipes field: the ids of
\* post_data["recipes"] when the key is there and that value is not empty.
PostedRecipeList(post) ==
    IF post.recipes # None /\ LastValue(post.recipes[1]) # <<>>
    THEN recipe_ids(LastValue(post.recipes[1]))
    ELSE <<>>

\* ModelMultipleChoiceField(required=False).clean: every value is a primary
\* key of a stored Recipe.
RecipesFieldValid(list) ==
    \A i \in 1..Len(list) : IsInt(list[i]) /\ ToInt(list[i]) \in recipes

\* MealForm(post_data).is_valid() in create_meal
CreateFormValid(post) ==
    /\ NameFieldValid(post.name)
    /\ RecipesFieldValid(PostedRecipeList(post))

\* cleaned_data["recipes"] of a valid form
CleanedRecipes(post) ==
    LET list == PostedRecipeList(post) IN {ToInt(list[i]) : i \in 1..Len(list)}

RecipeValueLists ==
    {None} \cup {Some(<<v>>) : v \in SeqsUpTo(RecipeChars, MaxPostLen)}
           \cup {Some(<<v, w>>) : v, w \in SeqsUpTo(RecipeChars, 1)}

CreatePosts ==
    [name : {None, Some(<<" ">>), Some(<<"a">>)},
     meal_date : {None, Some(2)},
     meal_time : {None, Some(720)},
     recipes : RecipeValueLists]

\* POST meals:create by requester. login_required sends a request without a
\* user to the login page before the view runs.
create_meal(requester, post) ==
    /\ viewOp = "none"
    /\ requester \in users \cup {Anonymous}
    /\ viewOp' = "create_meal"
    /\ viewRequest' = [user |-> requester, post |-> post]
    /\ IF requester = Anonymous
       THEN /\ viewResponse' = [status |-> 302, location |-> "login"]
            /\ UNCHANGED <<edVars, cleanVars, storeVars, recipeVars>>
       ELSE IF CreateFormValid(post)
       THEN /\ MealInsert(MaxMeals, requester,
                          MealDateTime(post.meal_date, post.meal_time, now),
                          CleanedRecipes(post))
            /\ viewResponse' = [status |-> 302, location |-> "meals:index"]
       ELSE /\ viewResponse' = [status |-> 200, location |-> "meals/create.html"]
            /\ UNCHANGED <<edVars, cleanVars, storeVars, recipeVars>>
    /\ UNCHANGED <<formVars, authVars, quickVars>>

\* The response has gone to the client; the server waits for a request.
ResponseSent ==
    /\ viewOp # "none"
    /\ ViewReset
    /\ UNCHANGED <<edVars, cleanVars, storeVars, recipeVars, formVars, authVars, quickVars>>

CreateNext ==
    \/ \E requester \in Users \cup {Anonymous}, post \in CreatePosts :
          create_meal(requester, post)
    \/ ResponseSent

\* Two recipes are stored when the requests come.
RecipesStored ==
    /\ ingredientRows = {}
    /\ recipes = {1, 2}
    /\ recipeIngredients = {}
    /\ recipeOp = "none"
    /\ recipeResult = "none"

\* ------------------------------------------------------ users: sessions
\* str.lower() of the model's characters
Lower(s) == [i \in 1..Len(s) |-> IF s[i] = "A" THEN "a" ELSE s[i]]

\* Usernames posted to the forms.
UsernameTexts == {<<>>, <<"a">>, <<"A">>, <<" ", "a">>}

\* Passwords posted to the forms.
PasswordTexts == SeqsUpTo({" ", "a"}, MaxNameLen)

RegisterPosts ==
    [username : UsernameTexts, email_valid : BOOLEAN,
     password1 : PasswordTexts, password2 : PasswordTexts]

LoginPosts == [username : UsernameTexts, password : PasswordTexts]

\* The username field of both forms: forms.CharField, stripped.
CleanUsername(post) == Strip(post.username)

\* The uniqueness check of the creation form: the exact name is always
\* refused; a name differing only in case is refused when the installed
\* release compares ignoring case (ci).
UsernameTaken(username, ci) ==
    \E a \in accounts :
        \/ a.username = username
        \/ ci /\ Lower(a.username) = Lower(username)

\* CustomUserCreationForm(request.POST).is_valid(); the password fields of
\* UserCreationForm are not stripped.
RegisterFormValid(post, ci) ==
    /\ CleanUsername(post) # <<>>
    /\ ~UsernameTaken(CleanUsername(post), ci)
    /\ post.email_valid
    /\ post.password1 # <<>>
    /\ post.password2 = post.password1

\* POST users:register
register(post, ci) ==
    /\ viewOp = "none"
    /\ viewOp' = "register"
    /\ viewRequest' = [user |-> session, post |-> post]
    /\ IF RegisterFormValid(post, ci)
       THEN /\ Cardinality(accounts) < MaxUsers
            /\ LET id == Cardinality(accounts) + 1
               IN  /\ accounts' = accounts \cup
                         {[id |-> id, username |-> CleanUsername(post),
                           password |-> post.password1]}
                   /\ session' = id
            /\ viewResponse' = [status |-> 302, location |-> "index"]
       ELSE /\ UNCHANGED authVars
            /\ viewResponse' = [status |-> 200, location |-> "users/register.html"]
    /\ UNCHANGED <<edVars, cleanVars, storeVars, recipeVars, formVars, quickVars>>

\* The password field of LoginForm: forms.CharField, stripped like any other.
CleanPassword(post) == Strip(post.password)

\* LoginForm(request.POST).is_valid(): both fields are required.
LoginFormValid(post) == CleanUsername(post) # <<>> /\ CleanPassword(post) # <<>>

\* authenticate(request, username=..., password=...): the accounts that match
Authenticated(username, password) ==
    {a \in accounts : a.username = username /\ a.password = password}

\* POST users:login
login_view(post) ==
    /\ viewOp = "none"
    /\ viewOp' = "login"
    /\ viewRequest' = [user |-> session, post |-> post]
    /\ LET found == IF LoginFormValid(post)
                    THEN Authenticated(CleanUsername(post), CleanPassword(post))
                    ELSE {}
       IN  IF found # {}
           THEN /\ session' = (CHOOSE a \in found : TRUE).id
                /\ viewResponse' = [status |-> 302, location |-> "index"]
           ELSE /\ session' = session
                /\ viewResponse' = [status |-> 200, location |-> "users/login.html"]
    /\ UNCHANGED accounts
    /\ UNCHANGED <<edVars, cleanVars, storeVars, recipeVars, formVars, quickVars>>

\* users:logout
logout_view ==
    /\ viewOp = "none"
    /\ viewOp' = "logout"
    /\ viewRequest' = [user |-> session]
    /\ session' = Anonymous
    /\ viewResponse' = [status |-> 302, location |-> "index"]
    /\ UNCHANGED accounts
    /\ UNCHANGED <<edVars, cleanVars, storeVars, recipeVars, formVars, quickVars>>

AuthNext ==
    \/ \E post \in RegisterPosts, ci \in BOOLEAN : register(post, ci)
    \/ \E post \in LoginPosts : login_view(post)
    \/ logout_view
    \/ ResponseSent

\* ------------------------------------------------- edibles: quick create
\* The value posted as name: missing, or a text.
NamePosts == {None} \cup {Some(t) : t \in Texts}

\* Mutant of the requested name: the posted text as it came.
RequestedName_Unstripped(post) == IF post = None THEN <<>> ELSE post[1]

\* request.POST.get("name", "").strip()
RequestedName(post) == Strip(IF post = None THEN <<>> ELSE post[1])

\* Mutant of the existence query: name=name, the exact name only.
ExistingEdible_Exact(name) == {id \in edibles : names[id] = name}

\* Edible.objects.filter(name__iexact=name): the rows whose name is the
\* requested one ignoring case.
ExistingEdible(name) == {id \in edibles : Lower(names[id]) = Lower(name)}

\* .first() of an unordered queryset: the row with the lowest primary key
First(ids) == CHOOSE id \in ids : \A other \in ids : id <= other

\* The unique index on Edible.name holds the names as written.
NameUnique(name) == \A id \in edibles : names[id] # name

\* The INSERT of Edible.objects.create(name=name): a row with the next id and
\* no ingredients.
EdibleInsert(name) ==
    /\ Cardinality(edibles) < MaxEdibles
    /\ LET id == Cardinality(edibles) + 1
       IN  /\ edibles' = edibles \cup {id}
           /\ names' = Append(names, name)
           /\ edOp' = "create"
           /\ edTarget' = id
    /\ UNCHANGED <<ingredients, edResult, edBefore>>

\* Edible.objects.create(name=name) outside the view
EdibleCreateNamed(name) ==
    /\ viewOp = "none"
    /\ NameUnique(name)
    /\ EdibleInsert(name)
    /\ UNCHANGED workers
    /\ UNCHANGED <<cleanVars, storeVars, recipeVars, formVars, viewVars, authVars>>

\* POST edibles:quick_create, served from start to end
quick_create_edible(post) ==
    /\ viewOp = "none"
    /\ viewOp' = "quick_create"
    /\ viewRequest' = [user |-> session, post |-> post]
    /\ LET name == RequestedName(post)
           existing == ExistingEdible(name)
       IN  IF name = <<>>
           THEN /\ viewResponse' = [status |-> 400, ok |-> FALSE,
                                    error |-> "Name is required"]
                /\ UNCHANGED <<edVars, names>>
           ELSE IF existing # {}
           THEN /\ viewResponse' = [status |-> 200, ok |-> TRUE,
                                    id |-> First(existing),
                                    name |-> names[First(existing)],
                                    existing |-> TRUE]
                /\ UNCHANGED <<edVars, names>>
           ELSE /\ EdibleInsert(name)
                /\ viewResponse' = [status |-> 200, ok |-> TRUE,
                                    id |-> Cardinality(edibles) + 1,
                                    name |-> name, existing |-> FALSE]
    /\ UNCHANGED workers
    /\ UNCHANGED <<cleanVars, storeVars, recipeVars, formVars, authVars>>

\* Names given to the rows created outside the view.
DirectNames == SeqsUpTo({"a", "A"}, MaxNameLen) \ {<<>>}

QuickNext ==
    \/ \E post \in NamePosts : quick_create_edible(post)
    \/ \E name \in DirectNames : EdibleCreateNamed(name)
    \/ ResponseSent

\* ---------------------------------- edibles: overlapping quick creates
\* Each request is served by its own worker; the existence query and the
\* INSERT are separate statements, each committed on its own.
WorkerIds == 1..MaxWorkers

IdleWorker == [pc |-> "idle", name |-> <<>>, result |-> "none", id |-> 0]

\* The worker reads the request: line 34 to 36.
QuickReceive(w, post) ==
    /\ workers[w].pc = "idle"
    /\ LET name == RequestedName(post)
       IN  workers' = [workers EXCEPT ![w] =
              IF name = <<>>
              THEN [pc |-> "done", name |-> name, result |-> "400", id |-> 0]
              ELSE [pc |-> "query", name |-> name, result |-> "none", id |-> 0]]
    /\ UNCHANGED <<edVars, names>>
    /\ UNCHANGED <<cleanVars, storeVars, recipeVars, formVars, viewVars, authVars>>

\* The worker runs the existence query: line 38 to 44.
QuickQuery(w) ==
    /\ workers[w].pc = "query"
    /\ LET existing == ExistingEdible(workers[w].name)
       IN  workers' = [workers EXCEPT ![w] =
              IF existing # {}
              THEN [@ EXCEPT !.pc = "done", !.result = "existing", !.id = First(existing)]
              ELSE [@ EXCEPT !.pc = "insert"]]
    /\ UNCHANGED <<edVars, names>>
    /\ UNCHANGED <<cleanVars, storeVars, recipeVars, formVars, viewVars, authVars>>

\* The worker runs the INSERT: line 45 and 46. The unique index refuses a
\* name that is stored by now; the view does not catch the IntegrityError.
QuickInsert(w) ==
    /\ workers[w].pc = "insert"
    /\ IF NameUnique(workers[w].name)
       THEN /\ EdibleInsert(workers[w].name)
            /\ workers' = [workers EXCEPT ![w] =
                  [@ EXCEPT !.pc = "done", !.result = "created",
                            !.id = Cardinality(edibles) + 1]]
       ELSE /\ workers' = [workers EXCEPT ![w] =
                  [@ EXCEPT !.pc = "done", !.result = "IntegrityError"]]
            /\ UNCHANGED <<edVars, names>>
    /\ UNCHANGED <<cleanVars, storeVars, recipeVars, formVars, viewVars, authVars>>

RaceNext ==
    \/ \E w \in WorkerIds, post \in NamePosts : QuickReceive(w, post)
    \/ \E w \in WorkerIds : QuickQuery(w)
    \/ \E w \in WorkerIds : QuickInsert(w)

\* An empty store and every worker waiting for a request.
RaceInit ==
    /\ names = <<>>
    /\ workers = [w \in WorkerIds |-> IdleWorker]

\* ------------------------------------------------------- recipe form
\* One entry of the ingredients_data list: its "id" (missing, 0, or a
\* number, of which 3 names no ingredient) and its "weight".
DataEntries == [id : {None, Some(0), Some(1), Some(2), Some(3)},
                weight : {None, Some(10000)}]

\* cleaned_data["ingredients_data"]: empty, text that is no JSON, or a JSON
\* list of objects.
IngredientsData ==
    {[kind |-> "empty", items |-> <<>>], [kind |-> "malformed", items |-> <<>>]}
        \cup {[kind |-> "list", items |-> l] : l \in SeqsUpTo(DataEntries, MaxDataLen)}

\* The primary key of the next RecipeIngredient row.
NextLinkId(links) ==
    IF links = {} THEN 1
    ELSE (CHOOSE n \in {l.id : l \in links} : \A l \in links : l.id <= n) + 1

RECURSIVE CreateLinks(_, _, _)
\* The loop of _save_ingredients over the entries: an entry without an id
\* is passed over, so is one whose id names no ingredient; each other entry
\* is inserted, and the unique index on (recipe, ingredient) ends the loop
\* with an IntegrityError.
CreateLinks(recipe, items, links) ==
    IF items = <<>>
    THEN [links |-> links, result |-> "saved"]
    ELSE LET entry == Head(items)
             row == [id |-> NextLinkId(links), recipe |-> recipe,
                     ingredient |-> entry.id[1], weight_g |-> entry.weight]
         IN  IF entry.id = None \/ entry.id[1] = 0
             THEN CreateLinks(recipe, Tail(items), links)
             ELSE IF entry.id[1] \notin IngredientRowIds
             THEN CreateLinks(recipe, Tail(items), links)
             ELSE IF \E l \in links : l.recipe = recipe /\ l.ingredient = entry.id[1]
             THEN [links |-> links, result |-> "IntegrityError"]
             ELSE CreateLinks(recipe, Tail(items), links \cup {row})

\* recipe.ingredients.clear(), then the entries of ingredients_data
SaveIngredients(recipe, data) ==
    CreateLinks(recipe, data.items,
                {l \in recipeIngredients : l.recipe # recipe})

\* RecipeForm(post, instance=...).save() of a valid form. instance is a stored
\* recipe, or 0 for a new one. An IntegrityError leaves the view; what was
\* written before it stays, unless the request runs in one transaction
\* (atomic), which then is rolled back.
RecipeFormSave(instance, data, atomic) ==
    /\ viewOp = "none"
    /\ instance \in recipes \cup {0}
    /\ instance = 0 => Cardinality(recipes) < MaxRecipes
    /\ LET recipe == IF instance = 0 THEN Cardinality(recipes) + 1 ELSE instance
           saved == SaveIngredients(recipe, data)
       IN  /\ viewOp' = "recipe_save"
           /\ viewRequest' = [user |-> session, instance |-> instance, data |-> data]
           /\ viewResponse' = [status |-> IF saved.result = "saved" THEN 302 ELSE 500,
                               recipe |-> recipe, result |-> saved.result]
           /\ recipeOp' = "RecipeFormSave"
           /\ recipeResult' = saved.result
           /\ IF saved.result = "saved" \/ ~atomic
              THEN /\ recipes' = recipes \cup {recipe}
                   /\ recipeIngredients' = saved.links
              ELSE UNCHANGED <<recipes, recipeIngredients>>
    /\ UNCHANGED ingredientRows
    /\ UNCHANGED <<edVars, cleanVars, storeVars, formVars, authVars, quickVars>>

RecipeFormNext ==
    \/ \E nm \in IngredientNames : IngredientCreate(nm)
    \/ \E instance \in 0..MaxRecipes, data \in IngredientsData, atomic \in BOOLEAN :
          RecipeFormSave(instance, data, atomic)
    \/ ResponseSent

\* ------------------------------------------------------- specifications
\* Edible rows and their ingredients relation.
Init == EdibleInit /\ CleanIdle /\ StoreInit /\ RecipeInit /\ FormIdle /\ ViewIdle /\ AuthIdle /\ QuickIdle

Next == EdibleNext

Spec == Init /\ [][Next]_vars

\* The two wellbeing validators applied to arbitrary instances.
InitClean == EdibleInit /\ CleanInit /\ StoreInit /\ RecipeInit /\ FormIdle /\ ViewIdle /\ AuthIdle /\ QuickIdle

CleanNext ==
    \/ ParameterFullClean
    \/ EntryFullClean
    \/ NumericTypeClean

SpecClean == InitClean /\ [][CleanNext]_vars

\* The stored wellbeing rows under creations and updates.
InitStore == EdibleInit /\ CleanIdle /\ StoreInit /\ RecipeInit /\ FormIdle /\ ViewIdle /\ AuthIdle /\ QuickIdle

SpecStore == InitStore /\ [][StoreNext]_vars

\* The stored parameters under creations.
InitParams == EdibleInit /\ CleanIdle /\ StoreInit /\ RecipeInit /\ FormIdle /\ ViewIdle /\ AuthIdle /\ QuickIdle

SpecParams == InitParams /\ [][ParamsNext]_vars

\* The users' rows under creations and deletions.
InitCascade == EdibleInit /\ CleanIdle /\ StoreInit /\ RecipeInit /\ FormIdle /\ ViewIdle /\ AuthIdle /\ QuickIdle

SpecCascade == InitCascade /\ [][CascadeNext]_vars

\* Entries created with one value given and the other left out.
InitDefaults == EdibleInit /\ CleanIdle /\ StoreInit /\ RecipeInit /\ FormIdle /\ ViewIdle /\ AuthIdle /\ QuickIdle

SpecDefaults == InitDefaults /\ [][DefaultsNext]_vars

\* The recipe tables under creations.
InitRecipes == EdibleInit /\ CleanIdle /\ StoreInit /\ RecipeInit /\ FormIdle /\ ViewIdle /\ AuthIdle /\ QuickIdle

SpecRecipes == InitRecipes /\ [][RecipeNext]_vars

\* The three validators applied to arbitrary records: either the stored
\* edibles carry any ingredients relation, or the wellbeing instances are
\* arbitrary.
InitValidators ==
    /\ StoreInit
    /\ RecipeInit
    /\ FormIdle
    /\ ViewIdle
    /\ AuthIdle
    /\ QuickIdle
    /\ \/ /\ edibles = EdibleIds
          /\ ingredients \in [EdibleIds -> SUBSET EdibleIds]
          /\ edOp = "none"
          /\ edTarget = 0
          /\ edResult = Ok
          /\ edBefore = NoWrite
          /\ CleanIdle
       \/ /\ EdibleInit
          /\ CleanInit

ValidatorsNext ==
    \/ \E e \in EdibleIds : EdibleFullClean(e)
    \/ ParameterFullClean
    \/ EntryFullClean
    \/ NumericTypeClean

SpecValidators == InitValidators /\ [][ValidatorsNext]_vars

\* MealForm.clean applied to arbitrary form data at an arbitrary clock.
InitForm == EdibleInit /\ CleanIdle /\ StoreInit /\ RecipeInit /\ FormInit /\ ViewIdle /\ AuthIdle /\ QuickIdle

FormNext == MealFormClean

SpecForm == InitForm /\ [][FormNext]_vars

\* The meals index page over users' meals being created, changed and deleted.
InitIndex == EdibleInit /\ CleanIdle /\ StoreInit /\ RecipeInit /\ FormIdle /\ ViewIdle /\ AuthIdle /\ QuickIdle

SpecIndex == InitIndex /\ [][IndexNext]_vars

\* POSTs to the create-meal view.
InitCreate == EdibleInit /\ CleanIdle /\ StoreInit /\ RecipesStored /\ FormIdle /\ ViewIdle /\ AuthIdle /\ QuickIdle

SpecCreate == InitCreate /\ [][CreateNext]_vars

\* One client registering, logging in and logging out.
InitAuth == EdibleInit /\ CleanIdle /\ StoreInit /\ RecipeInit /\ FormIdle /\ ViewIdle /\ AuthIdle /\ QuickIdle

SpecAuth == InitAuth /\ [][AuthNext]_vars

\* Quick-create requests served one after the other, next to direct creates.
InitQuick == EdibleInit /\ CleanIdle /\ StoreInit /\ RecipeInit /\ FormIdle /\ ViewIdle /\ AuthIdle /\ QuickIdle

SpecQuick == InitQuick /\ [][QuickNext]_vars

\* Quick-create requests whose statements interleave.
InitRace == EdibleInit /\ CleanIdle /\ StoreInit /\ RecipeInit /\ FormIdle /\ ViewIdle /\ AuthIdle /\ RaceInit

SpecRace == InitRace /\ [][RaceNext]_vars

\* Recipe forms saved over the stored ingredients.
InitRecipeForm == EdibleInit /\ CleanIdle /\ StoreInit /\ RecipeInit /\ FormIdle /\ ViewIdle /\ AuthIdle /\ QuickIdle

SpecRecipeForm == InitRecipeForm /\ [][RecipeFormNext]_vars

\* ----------------------------------------------------------------- claims
\* C1: no Edible's stored ingredient set ever contains that Edible's own id.
\* Fails: ingredients.set / add store the set without validating it.
C1_NoSelfIngredient == \A e \in edibles : e \notin ingredients[e]

\* C2: Edible.clean fails with the self-reference error iff the edible is a
\* member of the ingredient set it validates, and succeeds for every set not
\* containing it (the empty set included).
C2_CleanFailsIffSelf ==
    edOp = "full_clean" =>
        /\ (edResult.error = "SelfReference") <=> (edTarget \in ingredients[edTarget])
        /\ (edTarget \notin ingredients[edTarget]) => (edResult = Ok)

C2_Witness ==
    /\ edOp = "full_clean"
    /\ edibles = EdibleIds
    /\ ingredients[edTarget] = EdibleIds
    /\ edResult.error = "SelfReference"

\* C3: after a rejected attempt to make an edible its own ingredient (the
\* write followed by a full_clean that raises), the edible's stored ingredient
\* set is what it was before the attempt. Fails: the set was already stored.
C3_RejectedWriteLeavesState ==
    (edOp = "full_clean" /\ edResult # Ok /\ edBefore.edible = edTarget) =>
        ingredients[edTarget] = edBefore.before

\* Exactly one of {categoric_value set, numeric_value set}, matching the kind.
ExactlyOneMatchingKind(e, p) ==
    LET catSet == TruthyStr(e.categoric_value)
        numSet == e.numeric_value # None
    IN  /\ catSet # numSet
        /\ catSet => p.type = CATEGORIC
        /\ numSet => p.type = NUMERIC

EntryCleaned == cleanOp = "entry" /\ cleanEntry.parameter # None

\* C4 as stated: validation succeeds iff exactly one value is set and it
\* matches the parameter's kind.
C4_Original ==
    EntryCleaned =>
        ((cleanResult = Ok) <=> ExactlyOneMatchingKind(cleanEntry, cleanParam))

\* C4 amended: for a Categoric or Numeric parameter, validation succeeds iff
\* the entry's owner is the parameter's owner, exactly one value is set and
\* matches the kind, and, for a Categoric parameter whose options are a list,
\* the categoric_value is a member of the options.
C4_SucceedsIff ==
    (EntryCleaned /\ cleanParam.type \in {CATEGORIC, NUMERIC}) =>
        ((cleanResult = Ok) <=>
            /\ cleanEntry.user = cleanParam.user
            /\ ExactlyOneMatchingKind(cleanEntry, cleanParam)
            /\ (cleanParam.type = CATEGORIC /\ cleanParam.options.kind = "list") =>
                   cleanEntry.categoric_value[1] \in Elems(cleanParam.options.items))

C4_Witness ==
    /\ EntryCleaned
    /\ cleanResult = Ok
    /\ cleanParam.type = CATEGORIC
    /\ cleanParam.options = JsonList(<<"Happy", "Sad">>)
    /\ cleanEntry.categoric_value = Some("Sad")

\* The case of C5: a Categoric parameter with a non-empty option list, an entry
\* of the parameter's owner with no numeric value.
C5_Case ==
    /\ EntryCleaned
    /\ cleanParam.type = CATEGORIC
    /\ cleanParam.options.kind = "list"
    /\ Len(cleanParam.options.items) > 0
    /\ cleanEntry.user = cleanParam.user
    /\ cleanEntry.numeric_value = None

C5_InOptions ==
    /\ cleanEntry.categoric_value # None
    /\ cleanEntry.categoric_value[1] \in Elems(cleanParam.options.items)

\* C5 as stated: validation succeeds for every categoric_value that is a member
\* of the options and fails with the invalid-option error for every non-empty
\* value that is not.
C5_Original ==
    C5_Case =>
        /\ C5_InOptions => cleanResult = Ok
        /\ (TruthyStr(cleanEntry.categoric_value) /\ ~C5_InOptions) =>
               cleanResult = Err("InvalidOption", "categoric_value")

\* C5 amended: validation succeeds for every non-empty categoric_value that is
\* a member of the options and fails with the invalid-option error for every
\* non-empty value that is not (an empty value fails as missing even when the
\* empty string is one of the options).
C5_OptionMembership ==
    (C5_Case /\ TruthyStr(cleanEntry.categoric_value)) =>
        /\ C5_InOptions => cleanResult = Ok
        /\ ~C5_InOptions => cleanResult = Err("InvalidOption", "categoric_value")

C5_Witness ==
    /\ C5_Case
    /\ cleanParam.options = JsonList(<<"Happy">>)
    /\ cleanEntry.categoric_value = Some("Sad")
    /\ cleanResult.error = "InvalidOption"

\* C6: validation fails with the ownership-mismatch error on field 'parameter'
\* whenever the entry's owner differs from the parameter's owner, whatever the
\* parameter kind and the two values are.
C6_OwnershipMismatch ==
    (EntryCleaned /\ cleanEntry.user # cleanParam.user) =>
        cleanResult = Err("OwnershipMismatch", "parameter")

\* An owner mismatch on an entry that would otherwise trigger a value error.
C6_Witness ==
    /\ EntryCleaned
    /\ cleanEntry.user # cleanParam.user
    /\ cleanParam.type = NUMERIC
    /\ cleanEntry.numeric_value = None
    /\ cleanResult.error = "OwnershipMismatch"

OptionsAbsent(o) == o.kind = "null"

OptionsEmpty(o) == o.kind # "null" /\ Len(o.items) = 0

OptionsNonEmpty(o) == o.kind # "null" /\ Len(o.items) > 0

\* C7: WellbeingParameter.clean fails with the missing-options error for a
\* Categoric parameter whose options are absent, an empty list or not a list;
\* fails with the unexpected-options error for a Numeric parameter with
\* non-empty options; and succeeds for Categoric with a non-empty list and for
\* Numeric with absent or empty options.
C7_ParameterDefinition ==
    cleanOp = "parameter" =>
        LET o == cleanParam.options IN
        /\ (cleanParam.type = CATEGORIC
              /\ (OptionsAbsent(o) \/ OptionsEmpty(o) \/ o.kind # "list"))
             => cleanResult = Err("MissingOptions", "options")
        /\ (cleanParam.type = NUMERIC /\ OptionsNonEmpty(o))
             => cleanResult = Err("UnexpectedOptions", "options")
        /\ (cleanParam.type = CATEGORIC /\ o.kind = "list" /\ OptionsNonEmpty(o))
             => cleanResult = Ok
        /\ (cleanParam.type = NUMERIC /\ (OptionsAbsent(o) \/ OptionsEmpty(o)))
             => cleanResult = Ok

\* A Categoric parameter whose options are a non-empty non-list value.
C7_Witness ==
    /\ cleanOp = "parameter"
    /\ cleanParam.type = CATEGORIC
    /\ cleanParam.options = JsonString(<<"x">>)
    /\ cleanResult.error = "MissingOptions"

\* C8: every stored WellbeingEntry's owner is the owner of its parameter.
\* Fails: objects.create and save store a row without calling clean().
C8_StoredOwnerMatches ==
    \A e \in entries : e.user = ParamById(e.parameter).user

\* C9: every stored WellbeingEntry has exactly one value set, matching its
\* parameter's kind, and for a Categoric parameter the categoric_value is one
\* of the parameter's options. Fails for the same reason.
C9_StoredEntriesValid ==
    \A e \in entries :
        LET p == ParamById(e.parameter) IN
        /\ ExactlyOneMatchingKind(e, p)
        /\ p.type = CATEGORIC =>
              /\ p.options.kind = "list"
              /\ e.categoric_value[1] \in Elems(p.options.items)

\* C10: every stored Categoric parameter has a non-empty options list and
\* every stored Numeric parameter has absent or empty options. Fails for the
\* same reason.
C10_StoredParametersValid ==
    \A p \in params :
        /\ p.type = CATEGORIC => (p.options.kind = "list" /\ OptionsNonEmpty(p.options))
        /\ p.type = NUMERIC => (OptionsAbsent(p.options) \/ OptionsEmpty(p.options))

\* The ValidationErrors the value checks of WellbeingEntry.clean can raise.
ValueErrorKinds ==
    {"MissingCategoricValue", "UnexpectedNumericValue", "InvalidOption",
     "MissingNumericValue", "UnexpectedCategoricValue"}

\* C11: WellbeingEntry.clean looks at the parameter first, then at the owner,
\* then at the kind-specific values, and ends with the first failure: for a
\* Categoric parameter a missing categoric_value comes before an unexpected
\* numeric_value, which comes before an invalid option; for a Numeric parameter
\* a missing numeric_value comes before an unexpected categoric_value. One
\* call ends with one outcome.
C11_CheckOrder ==
    cleanOp = "entry" =>
        LET e == cleanEntry
            p == cleanParam
            own == e.user = p.user
        IN
        /\ e.parameter = None =>
              cleanResult.error \notin ValueErrorKinds \cup {"OwnershipMismatch"}
        /\ (e.parameter # None /\ ~own) => cleanResult.error = "OwnershipMismatch"
        /\ (e.parameter # None /\ own /\ p.type = CATEGORIC) =>
              /\ ~TruthyStr(e.categoric_value) =>
                    cleanResult.error = "MissingCategoricValue"
              /\ (TruthyStr(e.categoric_value) /\ e.numeric_value # None) =>
                    cleanResult.error = "UnexpectedNumericValue"
              /\ cleanResult.error = "InvalidOption" =>
                    (TruthyStr(e.categoric_value) /\ e.numeric_value = None)
        /\ (e.parameter # None /\ own /\ p.type = NUMERIC) =>
              /\ e.numeric_value = None => cleanResult.error = "MissingNumericValue"
              /\ (e.numeric_value # None /\ TruthyStr(e.categoric_value)) =>
                    cleanResult.error = "UnexpectedCategoricValue"

\* A Categoric entry with no categoric_value, a numeric_value and a list of
\* options: three checks would fail, the first one is reported.
C11_Witness ==
    /\ EntryCleaned
    /\ cleanEntry.user = cleanParam.user
    /\ cleanParam.type = CATEGORIC
    /\ cleanParam.options = JsonList(<<"Happy">>)
    /\ cleanEntry.categoric_value = None
    /\ cleanEntry.numeric_value = Some(0)
    /\ cleanResult = Err("MissingCategoricValue", "categoric_value")

\* The case of C12: a Categoric parameter, an entry of its owner with a
\* non-empty categoric_value and no numeric_value.
C12_Case ==
    /\ EntryCleaned
    /\ cleanParam.type = CATEGORIC
    /\ cleanEntry.user = cleanParam.user
    /\ TruthyStr(cleanEntry.categoric_value)
    /\ cleanEntry.numeric_value = None

\* C12 as stated: the invalid-option error needs a non-empty options list, so
\* an entry against a Categoric parameter with an empty options list passes.
C12_Original ==
    /\ (cleanOp = "entry" /\ cleanResult.error = "InvalidOption") =>
          /\ cleanParam.options.kind = "list"
          /\ Len(cleanParam.options.items) > 0
          /\ cleanEntry.categoric_value[1] \notin Elems(cleanParam.options.items)
    /\ (C12_Case /\ cleanParam.options = JsonList(<<>>)) => cleanResult = Ok

\* C12 amended: the invalid-option error is raised only if the parameter's
\* options are a list (empty or not) and the categoric_value is not a member
\* of it. An entry against a Categoric parameter with an empty options list
\* fails with the invalid-option error on 'categoric_value'; it passes when
\* the options are absent or not a list.
C12_InvalidOption ==
    /\ (cleanOp = "entry" /\ cleanResult.error = "InvalidOption") =>
          /\ cleanParam.options.kind = "list"
          /\ cleanEntry.categoric_value[1] \notin Elems(cleanParam.options.items)
    /\ (C12_Case /\ cleanParam.options = JsonList(<<>>)) =>
          cleanResult = Err("InvalidOption", "categoric_value")
    /\ (C12_Case /\ cleanParam.options.kind # "list") => cleanResult = Ok

C12_Witness ==
    /\ C12_Case
    /\ cleanParam.options = JsonList(<<>>)
    /\ cleanEntry.categoric_value = Some("Happy")
    /\ cleanResult = Err("InvalidOption", "categoric_value")

\* The numeric checks have run on cleanEntry: directly, or through
\* WellbeingEntry.clean for a Numeric parameter of the entry's owner.
C13_Case ==
    \/ cleanOp = "numeric_type"
    \/ /\ EntryCleaned
       /\ cleanParam.type = NUMERIC
       /\ cleanEntry.user = cleanParam.user

\* C13: for a Numeric parameter, an entry with no numeric_value fails with the
\* missing-numeric-value error on 'numeric_value' whether or not a
\* categoric_value is supplied; with a numeric_value and a non-empty
\* categoric_value it fails with the unexpected-categoric-value error; with a
\* numeric_value and a falsy categoric_value it passes; zero counts as set.
C13_NumericChecks ==
    C13_Case =>
        LET e == cleanEntry IN
        /\ e.numeric_value = None =>
              cleanResult = Err("MissingNumericValue", "numeric_value")
        /\ (e.numeric_value # None /\ TruthyStr(e.categoric_value)) =>
              cleanResult.error = "UnexpectedCategoricValue"
        /\ (e.numeric_value # None /\ ~TruthyStr(e.categoric_value)) =>
              cleanResult = Ok
        /\ (e.numeric_value = Some(0) /\ e.categoric_value \in {None, Some("")}) =>
              cleanResult = Ok

\* A numeric_value of zero beside an empty categoric_value passes.
C13_Witness ==
    /\ EntryCleaned
    /\ cleanParam.type = NUMERIC
    /\ cleanEntry.user = cleanParam.user
    /\ cleanEntry.numeric_value = Some(0)
    /\ cleanEntry.categoric_value = Some("")
    /\ cleanResult = Ok

\* The field each ValidationError of the wellbeing validators is attached to.
FieldOf(kind) ==
    CASE kind = "OwnershipMismatch" -> "parameter"
      [] kind \in {"MissingCategoricValue", "InvalidOption",
                   "UnexpectedCategoricValue"} -> "categoric_value"
      [] kind \in {"MissingNumericValue", "UnexpectedNumericValue"} -> "numeric_value"
      [] kind \in {"MissingOptions", "UnexpectedOptions"} -> "options"
      [] OTHER -> "none"

\* A ValidationError raised by one of the wellbeing validators.
WellbeingValidationFailed ==
    /\ cleanOp # "none"
    /\ cleanResult # Ok
    /\ cleanResult # Unhandled

\* C14 as stated: every validation failure of the three validators is
\* attached to a named field, none is a non-field error.
C14_Original ==
    /\ WellbeingValidationFailed => cleanResult.field = FieldOf(cleanResult.error)
    /\ (edOp = "full_clean" /\ edResult # Ok) => edResult.field # NON_FIELD_ERRORS

\* C14 amended: every validation failure of WellbeingParameter.clean and
\* WellbeingEntry.clean is attached to a named field ('parameter',
\* 'categoric_value', 'numeric_value', 'options'); the self-reference error
\* of Edible.clean is a non-field error.
C14_ErrorFields ==
    /\ WellbeingValidationFailed =>
          /\ cleanResult.field = FieldOf(cleanResult.error)
          /\ cleanResult.field \in {"parameter", "categoric_value",
                                     "numeric_value", "options"}
    /\ (edOp = "full_clean" /\ edResult # Ok) => edResult.field = NON_FIELD_ERRORS

C14_Witness ==
    /\ edOp = "full_clean"
    /\ edResult = Err("SelfReference", NON_FIELD_ERRORS)
    /\ ingredients[edTarget] = {edTarget}

\* C15: validating an entry that references no parameter ends with the
\* missing-parameter validation error on 'parameter'. Fails: reading the unset
\* parameter raises RelatedObjectDoesNotExist before the test of line 143 is
\* evaluated, so the call ends with an error that is no ValidationError.
C15_MissingParameter ==
    (cleanOp = "entry" /\ cleanEntry.parameter = None) =>
        cleanResult = Err("MissingParameter", "parameter")

\* Edibles a and b form an indirect cycle, neither being its own ingredient.
IndirectCycle(a, b) ==
    /\ a # b
    /\ b \in ingredients[a]
    /\ a \in ingredients[b]
    /\ a \notin ingredients[a]
    /\ b \notin ingredients[b]

\* C16: Edible.clean checks direct self-membership only: in a stored state
\* where A has B among its ingredients and B has A (A # B), validation of A
\* and of B succeeds; the state is reached by ingredient writes whose
\* full_clean passes.
C16_IndirectCycleAccepted ==
    \A a \in edibles, b \in edibles :
        IndirectCycle(a, b) =>
            /\ EdibleClean(a, ingredients[a]) = Ok
            /\ EdibleClean(b, ingredients[b]) = Ok
            /\ (edOp = "full_clean" /\ edTarget \in {a, b}) => edResult = Ok

\* The cycle 1 <-> 2 is stored, and the edible written last has just passed
\* full_clean.
C16_Witness ==
    /\ edibles = {1, 2}
    /\ IndirectCycle(1, 2)
    /\ edOp = "full_clean"
    /\ edBefore.edible = edTarget
    /\ edResult = Ok

\* No two stored parameters share (owner, name).
C17_NoDuplicate ==
    \A p \in params, q \in params :
        (p.user = q.user /\ p.name = q.name) => p = q

\* What a WellbeingParameter.objects.create step does to the table.
C17_CreateStep ==
    \A u \in Users, nm \in Names, t \in StoreTypes, o \in CreateOptions :
        ParameterCreate(u, nm, t, o) =>
            IF \E p \in params : p.user = u /\ p.name = nm
            THEN storeResult' = "IntegrityError" /\ params' = params
            ELSE /\ storeResult' = "stored"
                 /\ Cardinality(params') = Cardinality(params) + 1
                 /\ \E p \in params' \ params :
                       /\ p.user = u /\ p.name = nm
                       /\ params' = params \cup {p}

\* C17: no two stored WellbeingParameters have the same (owner, name):
\* creating one whose owner and name match a stored parameter is rejected
\* with IntegrityError and stores nothing; creating one with the same name for
\* another owner is stored.
C17_UniqueOwnerName == []C17_NoDuplicate /\ [][C17_CreateStep]_vars

\* "Mood" is stored for both owners, and a further create was rejected.
C17_Witness ==
    /\ \E p \in params, q \in params :
          p.user = 1 /\ q.user = 2 /\ p.name = "Mood" /\ q.name = "Mood"
    /\ storeOp = "ParameterCreate"
    /\ storeResult = "IntegrityError"

\* No two stored RecipeIngredient rows share (recipe, ingredient), and no two
\* stored Ingredients share a name.
C18_NoDuplicate ==
    /\ \A x \in recipeIngredients, y \in recipeIngredients :
          (x.recipe = y.recipe /\ x.ingredient = y.ingredient) => x = y
    /\ \A i \in ingredientRows, j \in ingredientRows : i.name = j.name => i = j

\* What a creation step does to the recipe tables.
C18_CreateStep ==
    /\ \A r \in 1..MaxRecipes, i \in 1..Cardinality(IngredientNames), w \in Weights :
          RecipeIngredientCreate(r, i, w) =>
              IF \E x \in recipeIngredients : x.recipe = r /\ x.ingredient = i
              THEN recipeResult' = "IntegrityError"
                   /\ recipeIngredients' = recipeIngredients
              ELSE /\ recipeResult' = "stored"
                   /\ \E x \in recipeIngredients' \ recipeIngredients :
                         /\ x.recipe = r /\ x.ingredient = i /\ x.weight_g = w
                         /\ recipeIngredients' = recipeIngredients \cup {x}
    /\ \A nm \in IngredientNames :
          (IngredientCreate(nm) /\ \E i \in ingredientRows : i.name = nm) =>
              (recipeResult' = "IntegrityError" /\ ingredientRows' = ingredientRows)

\* C18: no two stored RecipeIngredient rows share (recipe, ingredient): a
\* second row for a stored pair is rejected with IntegrityError whatever its
\* weight; Ingredient names are unique across the stored ingredients.
C18_UniqueRecipeIngredient == []C18_NoDuplicate /\ [][C18_CreateStep]_vars

\* A recipe holds both ingredients, one row each, and a further row for a
\* stored pair was rejected.
C18_Witness ==
    /\ Cardinality(ingredientRows) = 2
    /\ Cardinality(recipeIngredients) = 2
    /\ \E x \in recipeIngredients, y \in recipeIngredients :
          /\ x.recipe = 1 /\ y.recipe = 1
          /\ x.ingredient = 1 /\ y.ingredient = 2
          /\ x.weight_g = Some(10000)
    /\ recipeOp = "RecipeIngredientCreate"
    /\ recipeResult = "IntegrityError"

\* C19: deleting a user removes the user's WellbeingParameters,
\* WellbeingEntries and Meals, and deleting a parameter removes its entries:
\* in every stored state each parameter, entry and meal refers to a stored
\* user and each entry to a stored parameter.
C19_NoDanglingReference ==
    /\ \A p \in params : p.user \in users
    /\ \A e \in entries : e.user \in users /\ e.parameter \in ParamIds
    /\ \A m \in meals : m.user \in users

\* User 1 has just been deleted; a meal, a parameter and an entry had been
\* created, and none of user 1's rows is left (no other step removes a meal).
C19_Witness ==
    /\ storeOp = "UserDelete"
    /\ users = {2}
    /\ nextId = [param |-> 2, entry |-> 2, meal |-> 2]
    /\ meals = {}
    /\ params = {}
    /\ entries = {}

\* A step of one of the validators.
ValidatorStep ==
    \/ \E e \in EdibleIds : EdibleFullClean(e)
    \/ ParameterFullClean
    \/ EntryFullClean
    \/ NumericTypeClean

\* What a validator must leave alone: the validated records' fields, the
\* referenced parameter, and every stored row and relation.
ValidatedState ==
    <<cleanParam, cleanEntry, edibles, ingredients, params, entries, users, meals,
      ingredientRows, recipes, recipeIngredients>>

\* C20: Edible.clean, WellbeingParameter.clean and WellbeingEntry.clean are
\* pure: a call, whether it succeeds or fails, leaves the validated record's
\* fields, the referenced parameter and all stored rows and relations unchanged.
C20_ValidatorsPure == [][ValidatorStep => UNCHANGED ValidatedState]_vars

\* A failed entry validation: the entry still refers to the same parameter
\* and holds the values it was given.
C20_Witness ==
    /\ cleanOp = "entry"
    /\ cleanResult = Err("UnexpectedCategoricValue", "categoric_value")
    /\ cleanEntry.parameter = Some(cleanParam)
    /\ cleanEntry.categoric_value = Some("Sad")
    /\ cleanEntry.numeric_value = Some(750)

\* C21: used_in is exactly the inverse of ingredients: B is in A.used_in iff
\* A is in B.ingredients, and the number of edibles an edible is used in is
\* the number of edibles that list it as an ingredient.
C21_UsedInIsInverse ==
    \A a \in edibles :
        /\ \A b \in edibles : (b \in used_in(a)) <=> (a \in ingredients[b])
        /\ used_in(a) \subseteq edibles
        /\ Cardinality(used_in(a)) =
              Cardinality({b \in edibles : a \in ingredients[b]})

\* Edible 1 lists edible 2 and nothing lists edible 1: 2 is used in 1 only.
C21_Witness ==
    /\ edibles = {1, 2}
    /\ ingredients[1] = {2}
    /\ ingredients[2] = {}
    /\ edOp = "set"
    /\ used_in(2) = {1}
    /\ used_in(1) = {}

\* The entry stored by the last create.
LastEntry == EntryById(nextId.entry - 1)

\* C22: an entry created with only a numeric_value is stored with
\* categoric_value unset (null), an entry created with only a categoric_value
\* with numeric_value unset (null), and the supplied value is read back
\* unchanged. Fails: the categoric_value left out is stored as the empty
\* string, not as null.
C22_OmittedValueIsNull ==
    /\ (storeOp = "EntryCreateNumericOnly" /\ storeResult = "stored") =>
          /\ LastEntry.categoric_value = None
          /\ LastEntry.numeric_value # None
    /\ (storeOp = "EntryCreateCategoricOnly" /\ storeResult = "stored") =>
          /\ LastEntry.numeric_value = None
          /\ TruthyStr(LastEntry.categoric_value)

OwnMeals(owner, stored) == {m \in stored : m.user = owner}

\* What the last index request was shown, given the meals stored now: an
\* anonymous requester gets no recent_meals; a user gets only own meals, five of
\* them or all when there are fewer, none twice, newest first, and no own
\* meal left out is newer than one shown.
IndexShownOk ==
    viewOp = "index" =>
        LET requester == viewRequest.user
            shown == viewResponse.recent_meals
            own == OwnMeals(requester, meals)
            left == own \ {shown[i] : i \in 1..Len(shown)}
        IN  IF requester = Anonymous
            THEN ~viewResponse.in_context /\ shown = <<>>
            ELSE /\ viewResponse.in_context
                 /\ \A i \in 1..Len(shown) : shown[i] \in own
                 /\ Len(shown) = IF Cardinality(own) < 5 THEN Cardinality(own) ELSE 5
                 /\ \A i, j \in 1..Len(shown) :
                       /\ i # j => shown[i] # shown[j]
                       /\ i < j => Instant(shown[i].date_time) >= Instant(shown[j].date_time)
                 /\ \A m \in left, i \in 1..Len(shown) :
                       Instant(m.date_time) <= Instant(shown[i].date_time)

\* A step that leaves a user's own meals as they were leaves the user's page
\* as it was, whatever happens to the meals of others.
IndexIsolated ==
    \A owner \in users, tb \in TieBreaks :
        (meals' # meals /\ OwnMeals(owner, meals') = OwnMeals(owner, meals)) =>
            recent_meals(owner, tb, meals') = recent_meals(owner, tb, meals)

\* C24: the meals index page shows a user only own meals, at most the five
\* with the latest date_time, newest first; writes to other users' meals do
\* not change it; an unauthenticated requester is shown no meals.
C24_IndexShowsOwnRecentMeals == []IndexShownOk /\ [][IndexIsolated]_vars

\* C24 witness: a user with six meals on two dates, one other user's meal
\* stored, was shown a page of five.
C24_Witness ==
    /\ viewOp = "index"
    /\ viewRequest.user # Anonymous
    /\ Cardinality(OwnMeals(viewRequest.user, meals)) > RecentLimit
    /\ Len(viewResponse.recent_meals) = RecentLimit
    /\ viewResponse.recent_meals[1].date_time # viewResponse.recent_meals[5].date_time

\* Every recipe id posted under the recipes key, in any of its values.
SubmittedIds(post) ==
    IF post.recipes = None
    THEN {}
    ELSE LET values == post.recipes[1]
             ids(v) == {ToInt(recipe_ids(v)[i]) : i \in 1..Len(recipe_ids(v))}
         IN  UNION {ids(values[k]) : k \in 1..Len(values)}

\* What a create_meal request does to the meals table.
CreateMealStep ==
    viewOp' = "create_meal" =>
    LET requester == viewRequest'.user
        post == viewRequest'.post
        new == meals' \ meals
    IN  /\ meals \subseteq meals'
        /\ \A m \in new : requester # Anonymous /\ m.user = requester
        /\ requester = Anonymous =>
              new = {} /\ viewResponse'.location = "login"
        /\ ~CreateFormValid(post) => new = {}
        /\ (requester # Anonymous /\ CreateFormValid(post)) =>
              /\ Cardinality(new) = 1
              /\ \A m \in new : m.recipes = SubmittedIds(post)

\* C25: a meal stored by create_meal is owned by the authenticated requester;
\* an unauthenticated request is sent to login and stores nothing, an invalid
\* form stores nothing, and a valid authenticated POST stores exactly one
\* meal whose recipes are the recipe ids submitted.
C25_CreateMealOwnedByRequester == [][CreateMealStep]_vars

\* The credentials posted are those of a registered user, as registered.
ValidCredentials(post) ==
    \E a \in accounts : a.username = post.username /\ a.password = post.password

\* What a request to the users views does to the accounts and the session.
AuthStep ==
    LET post == viewRequest'.post
        new == accounts' \ accounts
    IN  /\ viewOp' = "register" =>
              /\ accounts \subseteq accounts'
              /\ IF viewResponse'.status = 302
                 THEN /\ Cardinality(new) = 1
                      /\ \A a \in new : session' = a.id
                 ELSE new = {}
              /\ (\E a \in accounts : a.username = post.username) => new = {}
              /\ (~post.email_valid \/ post.password1 # post.password2) => new = {}
        /\ viewOp' = "login" =>
              /\ accounts' = accounts
              /\ ValidCredentials(post) =>
                    \E a \in accounts :
                        /\ a.username = post.username
                        /\ session' = a.id
              /\ (~ValidCredentials(post) /\ session = Anonymous) =>
                    session' = Anonymous
        /\ viewOp' = "logout" =>
              /\ accounts' = accounts
              /\ session' = Anonymous

\* C26: a successful registration stores exactly one user and authenticates
\* the session as that user; a registration with a taken username or an
\* invalid form stores none; a login with valid credentials authenticates the
\* session; a failed login leaves an unauthenticated session unauthenticated;
\* a logout leaves the session unauthenticated.
C26_SessionFlow == [][AuthStep]_vars

\* No two stored edibles have names that are equal ignoring case.
NoCaseDuplicates ==
    \A a, b \in edibles : Lower(names[a]) = Lower(names[b]) => a = b

\* What a quick-create request with a name does: an edible of that name
\* (ignoring case) is returned as it is and nothing is stored; otherwise one
\* row with the trimmed name and no ingredients is stored and returned. A
\* store without case duplicates stays without them.
QuickCreateStep ==
    viewOp' = "quick_create" =>
        LET posted == IF viewRequest'.post = None THEN <<>> ELSE viewRequest'.post[1]
            trimmed == Strip(posted)
            same == {id \in edibles : Lower(names[id]) = Lower(trimmed)}
            new == edibles' \ edibles
        IN  trimmed # <<>> =>
              /\ edibles \subseteq edibles'
              /\ \A id \in edibles : names'[id] = names[id]
              /\ viewResponse'.ok
              /\ IF same # {}
                 THEN /\ new = {}
                      /\ viewResponse'.existing
                      /\ viewResponse'.id \in same
                      /\ viewResponse'.name = names[viewResponse'.id]
                 ELSE /\ Cardinality(new) = 1
                      /\ viewResponse'.id \in new
                      /\ ~viewResponse'.existing
                      /\ names'[viewResponse'.id] = trimmed
                      /\ viewResponse'.name = trimmed
                      /\ ingredients'[viewResponse'.id] = {}
              /\ Cardinality({id \in edibles' : Lower(names'[id]) = Lower(trimmed)}) >= 1
              /\ NoCaseDuplicates => NoCaseDuplicates'
              /\ Cardinality(same) = 1 => viewResponse'.id \in same

\* C27: quick_create_edible creates no duplicate: with an edible of the
\* trimmed name (ignoring case) stored it stores nothing and returns that
\* edible with existing=true; otherwise it stores exactly one edible with the
\* trimmed name and no ingredients; repeated calls return the same id and
\* the number of edibles of that name stays one.
C27_QuickCreateNoDuplicate == [][QuickCreateStep]_vars

\* C27 witness: "A" was asked for while "a" is stored; the stored row was
\* returned.
C27_Witness ==
    /\ viewOp = "quick_create"
    /\ viewRequest.post # None
    /\ viewResponse.ok
    /\ viewResponse.existing
    /\ viewResponse.name # Strip(viewRequest.post[1])
    /\ NoCaseDuplicates

\* What a quick-create request without a name does.
QuickCreateNameless ==
    viewOp' = "quick_create" =>
        LET posted == IF viewRequest'.post = None THEN <<>> ELSE viewRequest'.post[1]
        IN  Strip(posted) = <<>> =>
              /\ viewResponse' = [status |-> 400, ok |-> FALSE, error |-> "Name is required"]
              /\ UNCHANGED <<edibles, names, ingredients>>

\* C28: a quick-create request whose name is missing, empty or only
\* whitespace is answered ok=false, status 400, "Name is required", and the
\* edibles are left as they were.
C28_NameRequired == [][QuickCreateNameless]_vars

\* C28 witness: a name of blanks only was refused with edibles stored.
C28_Witness ==
    /\ viewOp = "quick_create"
    /\ viewRequest.post # None
    /\ viewRequest.post[1] # <<>>
    /\ viewResponse.status = 400
    /\ edibles # {}

\* C29: however the statements of overlapping quick-create requests
\* interleave, no two stored edibles have names equal ignoring case, and no
\* request ends in an unhandled integrity error.
C29_ConcurrentQuickCreate ==
    /\ NoCaseDuplicates
    /\ \A w \in DOMAIN workers : workers[w].result # "IntegrityError"

\* The ids listed in ingredients_data that name a stored ingredient.
ListedIngredients(data) ==
    {data.items[k].id[1] : k \in {j \in 1..Len(data.items) :
        data.items[j].id # None /\ data.items[j].id[1] \in IngredientRowIds}}

\* What saving a recipe form does: the save completes, the recipe is stored,
\* its links are those of the listed ids that name an ingredient, one each,
\* and the links of other recipes stay.
RecipeFormStep ==
    (viewOp = "none" /\ viewOp' = "recipe_save") =>
        LET recipe == viewResponse'.recipe
            data == viewRequest'.data
            mine == {l \in recipeIngredients' : l.recipe = recipe}
        IN  /\ viewResponse'.result = "saved"
            /\ recipe \in recipes'
            /\ {l.ingredient : l \in mine} = ListedIngredients(data)
            /\ Cardinality(mine) = Cardinality(ListedIngredients(data))
            /\ {l \in recipeIngredients' : l.recipe # recipe}
                  = {l \in recipeIngredients : l.recipe # recipe}

\* C30: saving a RecipeForm with commit replaces the recipe's ingredient
\* links by one link per listed id that names an ingredient, skipping
\* missing and unknown ids; empty or malformed data leaves the saved recipe
\* without ingredients; the same holds when an id is listed more than once.
C30_RecipeFormReplacesLinks == [][RecipeFormStep]_vars

====
